---- MODULE Spec2Model ----
(***************************************************************************)
(* Model of the webhook logger Target of internal/logger/target/http       *)
(* (New, Init, Send, startHTTPLogger, logEntry, Cancel).                   *)
(*                                                                         *)
(* Goroutines are modelled at the granularity of their accesses to shared  *)
(* memory.  A step that touches no shared memory (an HTTP round trip, a    *)
(* sleep) is joined to the shared access next to it, and the acquisition   *)
(* of a lock is joined to the first access made under it.  Worker          *)
(* goroutines are anonymous, so the pool is kept as counts per program     *)
(* position.  Every Send call carries a fresh entry (1, 2, 3, ...), all of *)
(* them serialisable to JSON (the data model's LogEntry).                  *)
(*                                                                         *)
(* The second part models the Server of internal/http (Init, the wrapped   *)
(* handler, Shutdown, GetRequestCount), with its own specifications.       *)
(***************************************************************************)
EXTENDS Integers, Sequences, FiniteSets, TLC

\* ---------------------------------------------------------------- bounds
NumSenders == 2      \* concurrent producer goroutines calling Send
MaxSends == 2        \* Send calls over a run
MaxSendsW == 17      \* Send calls over a run of SpecWorkers
MaxInits == 2        \* Init calls over a run
MaxFailures == 1     \* failing deliveries of entries over a run
QueueSize == 1       \* config.QueueSize: capacity of logCh and of the store
NumAddrs == 2        \* len(srv.Addrs)
NumReqs == 2         \* requests served over a run
NumClosers == 2      \* goroutines calling Server.Shutdown
MaxShutdowns == 3    \* Shutdown calls over a run
FairReqs == 1        \* requests served over a run of SpecSrvFair
FairShutdowns == 2   \* Shutdown calls over a run of SpecSrvFair
MaxPolls == 12       \* calls of nextPollInterval over a run of SpecPoll
JitterSamples == 10  \* values of rand.Intn(n) tried, spread over 0..n-1

\* ------------------------------------------------------ program constants
maxWorkers == 16
statusOffline == 0
statusOnline == 1
statusClosed == 2
MaxTries == 10       \* logEntry gives up at tries >= 10
StatusServiceUnavailable == 503
Millisecond == 1000000                         \* time.Millisecond, in ns
shutdownPollIntervalMax == 500 * Millisecond
DefaultShutdownTimeout == 5000                 \* 5 * time.Second, in ms

Senders == 1..NumSenders
EntryIds == 1..(MaxSends + MaxSendsW)
Addrs == 1..NumAddrs
Reqs == 1..NumReqs
Closers == 1..NumClosers

VARIABLES
  queueDir,        \* config.QueueDir != ""
  queueSize,       \* config.QueueSize
  recording,       \* the order of enqueues and POSTs is being observed
  remote,          \* the remote fixture: "ok" accepts every POST, "down" refuses
                   \* every connection, "reject" answers every POST with an
                   \* HTTP error (403, 500), "any" may do either at each POST
  status,          \* h.status
  workers,         \* h.workers
  sinceStarted,    \* time.Since(h.lastStarted): "within" a second or "over" it
  logCh,           \* buffer of the channel made by New
  logChClosed,     \* close(h.logCh) has run
  logChNil,        \* the field h.logCh is nil
  readers,         \* senders holding logChMu.RLock
  writerPending,   \* Cancel is inside logChMu.Lock(), waiting for the readers
  workerStartMu,   \* the sender holding h.workerStartMu, if any
  wg,              \* h.wg counter
  totalMessages,
  failedMessages,
  reviveOnce,      \* h.revive has fired
  revivePc,        \* position of the revive goroutine
  store,           \* h.store != nil
  storeItems,      \* entries held by the queue store
  storeCtxDone,    \* h.storeCtxCancel() has run
  sPc, sEntry, sNWorkers, sAfterCancel,   \* per Send call in progress
  nextEntry,       \* entry of the next Send call
  sendsLeft,       \* Send calls still to be made
  wStart,          \* workers spawned, before logChMu.RLock
  wIdle,           \* workers waiting in "range logCh"
  wBusy,           \* <<entry, tries>> of the workers inside logEntry
  iCas,            \* Init calls past an online probe, before the CAS on status
  iSpawn,          \* Init calls past a successful CAS, before starting the worker
  initsLeft,       \* Init calls still to be made
  failuresLeft,    \* deliveries the remote may still fail
  cPc,             \* position of the Cancel call
  rPc,             \* position of the replay goroutine inside SendFromStore
  rKey,            \* key given to the SendFromStore call in progress
  rOutcome,        \* outcome of the last POST made by SendFromStore
  rResult,         \* what the last SendFromStore call returned
  \* what was observed
  attempts,        \* per entry, the POSTs made for it
  posted,          \* per entry, the POSTs the remote accepted
  enqueued,        \* entries ever put on logCh
  persisted,       \* entries ever Put to the store
  retNil,          \* entries whose Send returned nil
  retErr,          \* entries whose Send returned an error
  panicked,        \* a send on the closed channel happened (Go panics)
  iRet,            \* what the last Init call returned
  iSpawned,        \* workers started by Init calls and by the revive goroutine
  revives,         \* revive goroutines ever started
  sleeps,          \* per entry, the backoff sleeps of logEntry, in milliseconds
  enqOrder,        \* while recording: the entries in the order put on logCh
  postLog,         \* while recording: the entries in the order the workers POST
  workersPeak,     \* while recording: the highest h.workers so far
  \* the Server
  srvInitPc,       \* Server.Init: 0 not called, i in Addrs at listenErrs[i],
                   \* NumAddrs + 1 past the loop, NumAddrs + 2 returned
  bindable,        \* the addresses fixture: "all" can be bound, or "any" subset
  listenErrs,      \* per address: "unknown", "nil" (bound) or "err"
  errCallbacks,    \* per address, the calls of listenErrCallback
  interfaceFound,
  initRet,         \* what Init returned: "none", "serve", "no available interface found"
  listener,        \* srv.listener: "nil", "open" or "closed"
  handlerWrapped,  \* srv.Handler is the wrapped handler
  inShutdown,
  requestCount,
  rqPc,            \* per request: "none", "check", "inc", "handler", "done"
  rqResp,          \* per request, the response written so far
  reqsLeft,        \* requests still to arrive
  sdPc,            \* per Shutdown caller: "idle", "add", "close", "select"
  sdRet,           \* per caller, what its last call returned
  sdObs,           \* per caller, the requestCount it loaded last, and in which case
  shutdownTimer,   \* per caller: "off", "armed", "fired"
  timer,           \* per caller, the poll timer: "off", "armed", "fired"
  shutdownsLeft,   \* Shutdown calls still to be made
  closes,          \* calls of srv.listener.Close()
  retClosed,       \* calls that returned http.ErrServerClosed
  srvShutdownTimeout,  \* srv.ShutdownTimeout, in ms
  shutdownTimeout, \* per caller, the duration given to its shutdown timer, in
                   \* ms; -1 before it made one
  pollIntervalBase,  \* of the closure nextPollInterval, in ns; 0 before line 165
  interval,        \* what nextPollInterval returned last, in ns
  polls            \* calls of nextPollInterval

cfgVars == <<queueDir, remote, queueSize, recording>>
chVars == <<logCh, logChClosed, logChNil>>
muVars == <<readers, writerPending, workerStartMu>>
cntVars == <<totalMessages, failedMessages>>
storeVars == <<store, storeItems, storeCtxDone>>
sndVars == <<sPc, sEntry, sNWorkers, sAfterCancel, nextEntry, sendsLeft>>
wrkVars == <<wStart, wIdle, wBusy, wg>>
initVars == <<iCas, iSpawn, initsLeft, reviveOnce, revivePc>>
rplVars == <<rPc, rKey, rOutcome, rResult>>
histVars == <<attempts, posted, enqueued, persisted, retNil, retErr, panicked>>
obsVars == <<iRet, iSpawned, revives, sleeps>>
ordVars == <<enqOrder, postLog, workersPeak>>
srvInitVars == <<srvInitPc, bindable, listenErrs, errCallbacks, interfaceFound,
                 initRet>>
rqVars == <<rqPc, rqResp, reqsLeft>>
sdVars == <<sdPc, sdRet, sdObs, shutdownTimer, timer, shutdownsLeft, closes,
            retClosed>>
durVars == <<srvShutdownTimeout, shutdownTimeout, pollIntervalBase, interval, polls>>
srvVars == <<srvInitVars, listener, handlerWrapped, inShutdown, requestCount,
             rqVars, sdVars, durVars>>
tgtVars == <<cfgVars, status, workers, sinceStarted, chVars, muVars, cntVars,
             storeVars, sndVars, wrkVars, initVars, failuresLeft, cPc, rplVars,
             histVars, obsVars, ordVars>>
vars == <<tgtVars, srvVars>>

\* ------------------------------------------------------- NewServer (259)
\* Nothing written yet to the ResponseWriter.
NoResponse == [code |-> 0, connection |-> "", body |-> ""]

\* A fresh Server: no listener, the handler as given, both counters zero, and
\* srv.ShutdownTimeout, which NewServer does not set, the zero Duration;
\* bind is the addresses fixture, reqs and shutdowns the budgets of the run.
NewServer(bind, reqs, shutdowns) ==
  /\ srvInitPc = 0
  /\ bindable = bind
  /\ reqsLeft = reqs
  /\ listenErrs = [a \in Addrs |-> "unknown"]
  /\ errCallbacks = [a \in Addrs |-> 0]
  /\ interfaceFound = FALSE
  /\ initRet = "none"
  /\ listener = "nil"
  /\ handlerWrapped = FALSE
  /\ inShutdown = 0
  /\ requestCount = 0
  /\ rqPc = [r \in Reqs |-> "none"]
  /\ rqResp = [r \in Reqs |-> NoResponse]
  /\ sdPc = [c \in Closers |-> "idle"]
  /\ sdRet = [c \in Closers |-> "none"]
  /\ sdObs = [c \in Closers |-> <<"none", 0>>]
  /\ shutdownTimer = [c \in Closers |-> "off"]
  /\ timer = [c \in Closers |-> "off"]
  /\ shutdownsLeft = shutdowns
  /\ closes = 0
  /\ retClosed = 0
  /\ srvShutdownTimeout = 0
  /\ shutdownTimeout = [c \in Closers |-> -1]
  /\ pollIntervalBase = 0 /\ interval = 0 /\ polls = 0

\* ------------------------------------------------------------ New (1207)
\* A fresh Target, for a configuration with or without queue directory (dir),
\* a remote fixture (rem) and the budgets of the run.
NewTarget(dir, rem, sends, inits, failures) ==
  /\ queueDir = dir
  /\ remote \in rem
  /\ status = statusOffline
  /\ workers = 0
  /\ sinceStarted = "over"          \* lastStarted is the zero time
  /\ logCh = <<>> /\ logChClosed = FALSE /\ logChNil = FALSE
  /\ readers = {} /\ writerPending = FALSE /\ workerStartMu = {}
  /\ wg = 0
  /\ totalMessages = 0 /\ failedMessages = 0
  /\ reviveOnce = FALSE /\ revivePc = "none"
  /\ store = FALSE /\ storeItems = <<>> /\ storeCtxDone = FALSE
  /\ sPc = [s \in Senders |-> "idle"]
  /\ sEntry = [s \in Senders |-> 0]
  /\ sNWorkers = [s \in Senders |-> 0]
  /\ sAfterCancel = [s \in Senders |-> FALSE]
  /\ nextEntry = 1
  /\ sendsLeft = sends
  /\ wStart = 0 /\ wIdle = 0 /\ wBusy = {}
  /\ iCas = 0 /\ iSpawn = 0
  /\ initsLeft = inits
  /\ failuresLeft = failures
  /\ cPc = "idle"
  /\ rPc = "idle" /\ rKey = 0 /\ rOutcome = "none" /\ rResult = "none"
  /\ attempts = [e \in EntryIds |-> 0]
  /\ posted = [e \in EntryIds |-> 0]
  /\ enqueued = {} /\ persisted = {}
  /\ retNil = {} /\ retErr = {}
  /\ panicked = FALSE
  /\ iRet = "none" /\ iSpawned = 0 /\ revives = 0
  /\ sleeps = [e \in EntryIds |-> <<>>]
  /\ enqOrder = <<>> /\ postLog = <<>> /\ workersPeak = 0

\* The initial state of a run of the Target: the Server is left alone, the
\* queue has the size QueueSize and the order of events is not observed.
InitWith(dir, rem, sends, inits, failures) ==
  /\ NewTarget(dir, rem, sends, inits, failures)
  /\ queueSize = QueueSize /\ recording = FALSE
  /\ NewServer("all", 0, 0)

\* The order logs grow only while recording.
Logged(log, e) == IF recording THEN Append(log, e) ELSE log

Peak(n) == IF recording /\ n > workersPeak THEN n ELSE workersPeak

\* ------------------------------------------------- the remote (send, 1113)
\* Result of one POST: "ok" a 2xx answer, "reject" any other answer (403, 500),
\* "down" a network or host-down error.
Outcomes ==
  CASE remote = "ok" -> {"ok"}
    [] remote = "reject" -> {"reject"}
    [] remote = "down" -> {"down"}
    [] OTHER -> {"ok", "reject", "down"}

\* IsOnline that takes any failure of checkAlive for offline.
IsOnlineStrict(o) == o = "ok"

\* IsOnline (1020): only a network/host-down error of the probe counts as offline.
IsOnline(o) == o # "down"

\* ----------------------------------------------------- sync.RWMutex logChMu
\* RLock waits while a writer holds or is waiting for the lock.
CanRLock == ~writerPending
\* Lock is granted when the last reader has left.
CanLock == readers = {}

\* ------------------------------------------------- store.Store (external)
\* The queue store is bounded by the configured size: Put fails when it is full.
StoreHasRoom == Len(storeItems) < queueSize

\* ----------------------------------------------------------- Send (1257)
\* The call returns nil or an error; its locals go out of scope.
SendReturn(s, err) ==
  /\ sPc' = [sPc EXCEPT ![s] = "idle"]
  /\ sEntry' = [sEntry EXCEPT ![s] = 0]
  /\ sNWorkers' = [sNWorkers EXCEPT ![s] = 0]
  /\ sAfterCancel' = [sAfterCancel EXCEPT ![s] = FALSE]
  /\ retNil' = IF err THEN retNil ELSE retNil \cup {sEntry[s]}
  /\ retErr' = IF err THEN retErr \cup {sEntry[s]} ELSE retErr

\* Enqueue on a channel that hands out the newest entry first.
EnqueueFront(e) ==
  /\ logCh' = <<e>> \o logCh
  /\ enqueued' = enqueued \cup {e}
  /\ enqOrder' = Logged(enqOrder, e)
  /\ panicked' = (panicked \/ logChClosed)

\* logCh <- entry; a send on a closed channel panics.
Enqueue(e) ==
  /\ logCh' = Append(logCh, e)
  /\ enqueued' = enqueued \cup {e}
  /\ enqOrder' = Logged(enqOrder, e)
  /\ panicked' = (panicked \/ logChClosed)

\* 1258-1261: the call begins and reads h.store; with a store the entry is Put
\* (which fails when the store is full) and the call returns.
SendStart(s) ==
  /\ sPc[s] = "idle" /\ sendsLeft > 0
  /\ sendsLeft' = sendsLeft - 1
  /\ nextEntry' = nextEntry + 1
  /\ IF store
       THEN /\ UNCHANGED <<sPc, sEntry, sAfterCancel>>
            /\ IF StoreHasRoom
                 THEN /\ storeItems' = Append(storeItems, nextEntry)
                      /\ persisted' = persisted \cup {nextEntry}
                      /\ retNil' = retNil \cup {nextEntry}
                      /\ retErr' = retErr
                 ELSE /\ retErr' = retErr \cup {nextEntry}
                      /\ UNCHANGED <<storeItems, persisted, retNil>>
       ELSE /\ sPc' = [sPc EXCEPT ![s] = "status"]
            /\ sEntry' = [sEntry EXCEPT ![s] = nextEntry]
            /\ sAfterCancel' = [sAfterCancel EXCEPT ![s] = (cPc = "done")]
            /\ UNCHANGED <<storeItems, persisted, retNil, retErr>>
  /\ UNCHANGED <<cfgVars, ordVars, rplVars, srvVars, obsVars,
                 status, workers, sinceStarted, chVars, muVars, cntVars,
                 store, storeCtxDone, sNWorkers, wrkVars, initVars, failuresLeft,
                 cPc, attempts, posted, enqueued, panicked>>

\* 1262-1264
SendLoadStatus(s) ==
  /\ sPc[s] = "status"
  /\ IF status = statusClosed
       THEN SendReturn(s, FALSE)
       ELSE /\ sPc' = [sPc EXCEPT ![s] = "select"]
            /\ UNCHANGED <<sEntry, sNWorkers, sAfterCancel, retNil, retErr>>
  /\ UNCHANGED <<cfgVars, ordVars, rplVars, srvVars, obsVars,
                 status, workers, sinceStarted, chVars, muVars, cntVars,
                 storeVars, nextEntry, sendsLeft,
                 wrkVars, initVars, failuresLeft, cPc, attempts, posted, enqueued,
                 persisted, panicked>>

\* 1265-1273: take the read lock; with a nil channel return, else try the
\* non-blocking enqueue of the select (the deferred RUnlock runs at a return).
SendSelect(s) ==
  /\ sPc[s] = "select" /\ CanRLock
  /\ IF logChNil
       THEN /\ SendReturn(s, FALSE)
            /\ UNCHANGED <<logCh, enqueued, enqOrder, panicked, readers>>
       ELSE IF Len(logCh) < queueSize \/ logChClosed
         THEN /\ Enqueue(sEntry[s])
              /\ SendReturn(s, FALSE)
              /\ UNCHANGED readers
         ELSE /\ sPc' = [sPc EXCEPT ![s] = "probe"]
              /\ readers' = readers \cup {s}
              /\ UNCHANGED <<logCh, enqueued, enqOrder, panicked, retNil, retErr, sEntry,
                             sNWorkers, sAfterCancel>>
  /\ UNCHANGED <<cfgVars, postLog, workersPeak, rplVars, srvVars, obsVars,
                 status, workers, sinceStarted, logChClosed, logChNil,
                 writerPending, workerStartMu, cntVars, storeVars,
                 nextEntry, sendsLeft, wrkVars,
                 initVars, failuresLeft, cPc, attempts, posted, persisted>>

\* SendDrop that forgets to count the dropped entry as failed.
SendDropNoFailed(s) ==
  /\ totalMessages' = totalMessages + 1
  /\ failedMessages' = failedMessages
  /\ SendReturn(s, TRUE)
  /\ readers' = readers \ {s}

\* 1296-1300 and 1276-1278: the entry is dropped and counted as failed.
SendDrop(s) ==
  /\ totalMessages' = totalMessages + 1
  /\ failedMessages' = failedMessages + 1
  /\ SendReturn(s, TRUE)
  /\ readers' = readers \ {s}

\* 1275-1281: the probe, then the load of the worker count; offline, or with
\* maxWorkers workers, the entry is dropped.
SendIsOnline(s) ==
  /\ sPc[s] = "probe"
  /\ \E o \in Outcomes :
       IF IsOnline(o) /\ workers < maxWorkers
         THEN /\ sNWorkers' = [sNWorkers EXCEPT ![s] = workers]
              /\ sPc' = [sPc EXCEPT ![s] = "startmu"]
              /\ UNCHANGED <<cntVars, retNil, retErr, readers, sEntry,
                             sAfterCancel>>
         ELSE SendDrop(s)
  /\ UNCHANGED <<cfgVars, ordVars, rplVars, srvVars, obsVars,
                 status, workers, sinceStarted, chVars, writerPending,
                 workerStartMu, storeVars, nextEntry,
                 sendsLeft, wrkVars, initVars, failuresLeft, cPc, attempts,
                 posted, enqueued, persisted, panicked>>

\* 1283-1292: under workerStartMu, start one worker if more than a second has
\* passed since the last start (time.Since(h.lastStarted) > time.Second) and
\* the CAS on workers succeeds.
SendStartWorker(s) ==
  /\ sPc[s] = "startmu" /\ workerStartMu = {}
  /\ workerStartMu' = {s}
  /\ IF sinceStarted = "over" /\ workers = sNWorkers[s]
       THEN /\ workers' = workers + 1
            /\ workersPeak' = Peak(workers + 1)
            /\ sinceStarted' = "within"
            /\ wStart' = wStart + 1
       ELSE UNCHANGED <<workers, workersPeak, sinceStarted, wStart>>
  /\ sPc' = [sPc EXCEPT ![s] = "enqueue"]
  /\ UNCHANGED <<cfgVars, enqOrder, postLog, rplVars, srvVars, obsVars,
                 status, chVars, readers, writerPending, cntVars,
                 storeVars, sEntry, sNWorkers, sAfterCancel, nextEntry, sendsLeft,
                 wIdle, wBusy, wg, initVars, failuresLeft, cPc, histVars>>

\* 1293-1294: the blocking enqueue, then the deferred Unlock and RUnlock.
SendBlockingEnqueue(s) ==
  /\ sPc[s] = "enqueue"
  /\ Len(logCh) < queueSize \/ logChClosed
  /\ Enqueue(sEntry[s])
  /\ SendReturn(s, FALSE)
  /\ workerStartMu' = {}
  /\ readers' = readers \ {s}
  /\ UNCHANGED <<cfgVars, postLog, workersPeak, rplVars, srvVars, obsVars,
                 status, workers, sinceStarted, logChClosed, logChNil,
                 writerPending, cntVars, storeVars, nextEntry, sendsLeft,
                 wrkVars, initVars, failuresLeft, cPc, attempts, posted,
                 persisted>>

Send(s) ==
  \/ SendStart(s) \/ SendLoadStatus(s) \/ SendSelect(s) \/ SendIsOnline(s)
  \/ SendStartWorker(s) \/ SendBlockingEnqueue(s)

\* ------------------------------------------------ startHTTPLogger (1183)
\* 1184-1197: under the read lock take the channel; with a live channel join
\* the wait group and enter the loop, with a nil one return (workers - 1).
WorkerStart ==
  /\ wStart > 0 /\ CanRLock
  /\ wStart' = wStart - 1
  /\ IF logChNil
       THEN /\ workers' = workers - 1
            /\ UNCHANGED <<wIdle, wg>>
       ELSE /\ wIdle' = wIdle + 1
            /\ wg' = wg + 1
            /\ UNCHANGED workers
  /\ UNCHANGED <<cfgVars, ordVars, rplVars, srvVars, obsVars,
                 status, sinceStarted, chVars, muVars, cntVars,
                 storeVars, sndVars, wBusy, initVars, failuresLeft, cPc, histVars>>

\* WorkerReceive without the count of the received entry.
WorkerReceiveNoCount ==
  /\ wIdle > 0 /\ Len(logCh) > 0
  /\ logCh' = Tail(logCh)
  /\ wIdle' = wIdle - 1
  /\ wBusy' = wBusy \cup {<<Head(logCh), 0>>}
  /\ UNCHANGED <<cfgVars, ordVars, rplVars, srvVars, obsVars,
                 status, workers, sinceStarted, logChClosed, logChNil,
                 muVars, cntVars, storeVars, sndVars, wStart, wg,
                 initVars, failuresLeft, cPc, histVars>>

\* 1199-1200: receive the next entry and count it.
WorkerReceive ==
  /\ wIdle > 0 /\ Len(logCh) > 0
  /\ logCh' = Tail(logCh)
  /\ totalMessages' = totalMessages + 1
  /\ wIdle' = wIdle - 1
  /\ wBusy' = wBusy \cup {<<Head(logCh), 0>>}
  /\ UNCHANGED <<cfgVars, ordVars, rplVars, srvVars, obsVars,
                 status, workers, sinceStarted, logChClosed, logChNil,
                 muVars, failedMessages, storeVars, sndVars, wStart, wg,
                 initVars, failuresLeft, cPc, histVars>>

\* 1199, 1189, 1193: the channel is closed and drained; the loop ends and the
\* deferred calls run (workers - 1, then wg.Done).
WorkerExit ==
  /\ wIdle > 0 /\ logCh = <<>> /\ logChClosed
  /\ wIdle' = wIdle - 1
  /\ workers' = workers - 1
  /\ wg' = wg - 1
  /\ UNCHANGED <<cfgVars, ordVars, rplVars, srvVars, obsVars,
                 status, sinceStarted, chVars, muVars, cntVars,
                 storeVars, sndVars, wStart, wBusy, initVars, failuresLeft, cPc,
                 histVars>>

\* The sleep taken with the square of the number of the coming attempt.
SleepNextTry(tries) ==
  LET sq == (tries + 3) * (tries + 3) IN IF sq > 1000 THEN 1000 ELSE sq

\* 1166-1170: the sleep before a retry, in milliseconds, after tries attempts:
\* (tries + 2) squared, at most a second.
Sleep(tries) ==
  LET sq == (tries + 2) * (tries + 2) IN IF sq > 1000 THEN 1000 ELSE sq

\* WorkerLogEntry that gives up one try too late.
WorkerLogEntryOneMore(e, t) ==
  /\ <<e, t>> \in wBusy
  /\ IF t > 0 /\ (t > MaxTries \/ status = statusClosed)
       THEN /\ wBusy' = wBusy \ {<<e, t>>}
            /\ wIdle' = wIdle + 1
            /\ UNCHANGED <<failedMessages, failuresLeft, attempts, posted, sleeps,
                           postLog>>
       ELSE \E o \in Outcomes :
              /\ o # "ok" => failuresLeft > 0
              /\ sleeps' = IF t > 0
                             THEN [sleeps EXCEPT ![e] = Append(@, Sleep(t))]
                             ELSE sleeps
              /\ attempts' = [attempts EXCEPT ![e] = @ + 1]
              /\ postLog' = Logged(postLog, e)
              /\ IF o = "ok"
                   THEN /\ posted' = [posted EXCEPT ![e] = @ + 1]
                        /\ wBusy' = wBusy \ {<<e, t>>}
                        /\ wIdle' = wIdle + 1
                        /\ UNCHANGED <<failedMessages, failuresLeft>>
                   ELSE /\ wBusy' = (wBusy \ {<<e, t>>}) \cup {<<e, t + 1>>}
                        /\ failedMessages' = failedMessages + 1
                        /\ failuresLeft' = failuresLeft - 1
                        /\ UNCHANGED <<wIdle, posted>>
  /\ UNCHANGED <<cfgVars, enqOrder, workersPeak, rplVars, srvVars, iRet, iSpawned,
                 revives, status, workers, sinceStarted, chVars, muVars,
                 totalMessages, storeVars, sndVars, wStart, wg, initVars, cPc,
                 enqueued, persisted, retNil, retErr, panicked>>

\* 1160-1180: one turn of the retry loop of logEntry for entry e after t tries:
\* give up after MaxTries tries or when closing, else (sleep and) POST.
WorkerLogEntry(e, t) ==
  /\ <<e, t>> \in wBusy
  /\ IF t > 0 /\ (t >= MaxTries \/ status = statusClosed)
       THEN /\ wBusy' = wBusy \ {<<e, t>>}
            /\ wIdle' = wIdle + 1
            /\ UNCHANGED <<failedMessages, failuresLeft, attempts, posted, sleeps,
                           postLog>>
       ELSE \E o \in Outcomes :
              /\ o # "ok" => failuresLeft > 0
              /\ sleeps' = IF t > 0
                             THEN [sleeps EXCEPT ![e] = Append(@, Sleep(t))]
                             ELSE sleeps
              /\ attempts' = [attempts EXCEPT ![e] = @ + 1]
              /\ postLog' = Logged(postLog, e)
              /\ IF o = "ok"
                   THEN /\ posted' = [posted EXCEPT ![e] = @ + 1]
                        /\ wBusy' = wBusy \ {<<e, t>>}
                        /\ wIdle' = wIdle + 1
                        /\ UNCHANGED <<failedMessages, failuresLeft>>
                   ELSE /\ wBusy' = (wBusy \ {<<e, t>>}) \cup {<<e, t + 1>>}
                        /\ failedMessages' = failedMessages + 1
                        /\ failuresLeft' = failuresLeft - 1
                        /\ UNCHANGED <<wIdle, posted>>
  /\ UNCHANGED <<cfgVars, enqOrder, workersPeak, rplVars, srvVars, iRet, iSpawned,
                 revives, status, workers, sinceStarted, chVars, muVars,
                 totalMessages, storeVars, sndVars, wStart, wg, initVars, cPc,
                 enqueued, persisted, retNil, retErr, panicked>>

Worker ==
  \/ WorkerStart \/ WorkerReceive \/ WorkerExit
  \/ \E p \in wBusy : WorkerLogEntry(p[1], p[2])

\* --------------------------------------------------- SendFromStore (1228)
\* Keys held by the store (an entry stands for its key).
StoreKeys == {storeItems[i] : i \in 1..Len(storeItems)}

\* store.Del(key)
StoreDel(k) == SelectSeq(storeItems, LAMBDA x : x # k)

\* 1228-1237: the replay loop, alive from the opening of the store until the
\* store context is cancelled, hands a key to SendFromStore; Get of a key that
\* is gone returns nil at once, else the entry is counted.
SendFromStoreGet(k) ==
  /\ rPc = "idle" /\ store /\ ~storeCtxDone
  /\ IF k \in StoreKeys
       THEN /\ totalMessages' = totalMessages + 1
            /\ rPc' = "send" /\ rKey' = k
            /\ UNCHANGED <<rOutcome, rResult>>
       ELSE /\ rResult' = "nil" /\ rOutcome' = "none"
            /\ UNCHANGED <<totalMessages, rPc, rKey>>
  /\ UNCHANGED <<cfgVars, ordVars, srvVars, obsVars, status, workers, sinceStarted, chVars,
                 muVars,
                 failedMessages, storeVars, sndVars, wrkVars, initVars,
                 failuresLeft, cPc, histVars>>

\* SendFromStoreSend that deletes the entry whatever the POST returned.
SendFromStoreSendAlwaysDel ==
  /\ rPc = "send"
  /\ \E o \in Outcomes :
       /\ o # "ok" => failuresLeft > 0
       /\ attempts' = [attempts EXCEPT ![rKey] = @ + 1]
       /\ rOutcome' = o
       /\ storeItems' = StoreDel(rKey)
       /\ IF o = "ok"
            THEN /\ posted' = [posted EXCEPT ![rKey] = @ + 1]
                 /\ rResult' = "nil"
                 /\ UNCHANGED <<failedMessages, failuresLeft>>
            ELSE /\ failedMessages' = failedMessages + 1
                 /\ failuresLeft' = failuresLeft - 1
                 /\ rResult' = IF o = "down" THEN "ErrNotConnected" ELSE "err"
                 /\ UNCHANGED posted
  /\ rPc' = "idle" /\ rKey' = 0
  /\ UNCHANGED <<cfgVars, ordVars, srvVars, obsVars, status, workers, sinceStarted, chVars,
                 muVars,
                 totalMessages, store, storeCtxDone, sndVars, wrkVars, initVars,
                 cPc, enqueued, persisted, retNil, retErr, panicked>>

\* 1243-1251: POST the entry; on an error count it and return ErrNotConnected
\* for a network or host-down error and the error itself otherwise; on success
\* delete the entry from the store.
SendFromStoreSend ==
  /\ rPc = "send"
  /\ \E o \in Outcomes :
       /\ o # "ok" => failuresLeft > 0
       /\ attempts' = [attempts EXCEPT ![rKey] = @ + 1]
       /\ rOutcome' = o
       /\ IF o = "ok"
            THEN /\ posted' = [posted EXCEPT ![rKey] = @ + 1]
                 /\ storeItems' = StoreDel(rKey)
                 /\ rResult' = "nil"
                 /\ UNCHANGED <<failedMessages, failuresLeft>>
            ELSE /\ failedMessages' = failedMessages + 1
                 /\ failuresLeft' = failuresLeft - 1
                 /\ rResult' = IF o = "down" THEN "ErrNotConnected" ELSE "err"
                 /\ UNCHANGED <<posted, storeItems>>
  /\ rPc' = "idle" /\ rKey' = 0
  /\ UNCHANGED <<cfgVars, ordVars, srvVars, obsVars, status, workers, sinceStarted, chVars,
                 muVars,
                 totalMessages, store, storeCtxDone, sndVars, wrkVars, initVars,
                 cPc, enqueued, persisted, retNil, retErr, panicked>>

SendFromStore == (\E k \in persisted : SendFromStoreGet(k)) \/ SendFromStoreSend

\* --------------------------------------------------------- Cancel (1309)
\* 1310
CancelStoreStatus ==
  /\ cPc = "idle"
  /\ status' = statusClosed
  /\ cPc' = "lock"
  /\ UNCHANGED <<cfgVars, ordVars, rplVars, srvVars, obsVars,
                 workers, sinceStarted, chVars, muVars, cntVars,
                 storeVars, sndVars, wrkVars, initVars, failuresLeft, histVars>>

\* 1314-1322: cancel the store's context if there is a store; Lock() then
\* announces the writer, which keeps new readers out.
CancelLock ==
  /\ cPc = "lock"
  /\ storeCtxDone' = (storeCtxDone \/ store)
  /\ writerPending' = TRUE
  /\ cPc' = "close"
  /\ UNCHANGED <<cfgVars, ordVars, rplVars, srvVars, obsVars,
                 status, workers, sinceStarted, chVars, readers,
                 workerStartMu, cntVars, store, storeItems, sndVars, wrkVars,
                 initVars, failuresLeft, histVars>>

\* CancelClose without logChMu: the channel is closed and niled while senders
\* may still hold the read lock.
CancelCloseNoLock ==
  /\ cPc = "close"
  /\ logChClosed' = TRUE
  /\ logChNil' = TRUE
  /\ writerPending' = FALSE
  /\ cPc' = "wait"
  /\ UNCHANGED <<cfgVars, ordVars, rplVars, srvVars, obsVars,
                 status, workers, sinceStarted, logCh, readers,
                 workerStartMu, cntVars, storeVars, sndVars, wrkVars, initVars,
                 failuresLeft, histVars>>

\* 1322-1325: the lock is granted; close the channel, nil the field, unlock.
CancelClose ==
  /\ cPc = "close" /\ CanLock
  /\ logChClosed' = TRUE
  /\ logChNil' = TRUE
  /\ writerPending' = FALSE
  /\ cPc' = "wait"
  /\ UNCHANGED <<cfgVars, ordVars, rplVars, srvVars, obsVars,
                 status, workers, sinceStarted, logCh, readers,
                 workerStartMu, cntVars, storeVars, sndVars, wrkVars, initVars,
                 failuresLeft, histVars>>

\* 1328
CancelWait ==
  /\ cPc = "wait" /\ wg = 0
  /\ cPc' = "done"
  /\ UNCHANGED <<cfgVars, ordVars, rplVars, srvVars, obsVars,
                 status, workers, sinceStarted, chVars, muVars, cntVars,
                 storeVars, sndVars, wrkVars, initVars, failuresLeft, histVars>>

Cancel == CancelStoreStatus \/ CancelLock \/ CancelClose \/ CancelWait

\* ----------------------------------------------------------- Init (1047)
\* ReviveDo without the sync.Once: every failed probe starts a goroutine.
ReviveDoNoOnce ==
  /\ reviveOnce' = TRUE
  /\ revivePc' = "tick"
  /\ revives' = revives + 1

\* revive.Do (1078): the first failed probe starts the revive goroutine.
ReviveDo ==
  /\ reviveOnce' = TRUE
  /\ revivePc' = IF reviveOnce THEN revivePc ELSE "tick"
  /\ revives' = IF reviveOnce THEN revives ELSE revives + 1

\* 1048-1050, 1054-1066: with a queue directory, open the store under the once
\* guard (a failed Open leaves the guard unset).
InitQueueStore ==
  /\ initsLeft > 0 /\ queueDir
  /\ initsLeft' = initsLeft - 1
  /\ \E opened \in BOOLEAN :
       /\ store' = (store \/ opened)
       /\ iRet' = IF store \/ opened THEN "nil"
                  ELSE "unable to initialize the queue store"
  /\ UNCHANGED <<cfgVars, ordVars, rplVars, srvVars, iSpawned, revives, sleeps,
                 status, workers, sinceStarted, chVars, muVars, cntVars,
                 storeItems, storeCtxDone, sndVars, wrkVars, iCas, iSpawn,
                 reviveOnce, revivePc, failuresLeft, cPc, histVars>>

\* 1069-1101: load status and return unless it is Offline (nil when Online, the
\* error when Closed); then the probe: offline registers the revive goroutine
\* and returns nil, online goes on to the CAS and returns nil after it.
InitLogChannel ==
  /\ initsLeft > 0 /\ ~queueDir
  /\ initsLeft' = initsLeft - 1
  /\ iRet' = IF status = statusClosed THEN "target is closed" ELSE "nil"
  /\ IF status # statusOffline
       THEN UNCHANGED <<iCas, reviveOnce, revivePc, revives>>
       ELSE \E o \in Outcomes :
              IF IsOnline(o)
                THEN /\ iCas' = iCas + 1
                     /\ UNCHANGED <<reviveOnce, revivePc, revives>>
                ELSE /\ ReviveDo
                     /\ UNCHANGED iCas
  /\ UNCHANGED <<cfgVars, ordVars, rplVars, srvVars, iSpawned, sleeps,
                 status, workers, sinceStarted, chVars, muVars, cntVars,
                 storeVars, sndVars, wrkVars, iSpawn, failuresLeft, cPc, histVars>>

\* InitCAS with a plain Store(status, Online) in place of the CAS.
InitStoreOnline ==
  /\ iCas > 0
  /\ iCas' = iCas - 1
  /\ status' = statusOnline
  /\ iSpawn' = iSpawn + 1
  /\ UNCHANGED <<cfgVars, ordVars, rplVars, srvVars, obsVars,
                 workers, sinceStarted, chVars, muVars, cntVars,
                 storeVars, sndVars, wrkVars, initsLeft, reviveOnce, revivePc,
                 failuresLeft, cPc, histVars>>

\* 1103: CompareAndSwap(status, Offline, Online)
InitCAS ==
  /\ iCas > 0
  /\ iCas' = iCas - 1
  /\ IF status = statusOffline
       THEN status' = statusOnline /\ iSpawn' = iSpawn + 1
       ELSE UNCHANGED <<status, iSpawn>>
  /\ UNCHANGED <<cfgVars, ordVars, rplVars, srvVars, obsVars,
                 workers, sinceStarted, chVars, muVars, cntVars,
                 storeVars, sndVars, wrkVars, initsLeft, reviveOnce, revivePc,
                 failuresLeft, cPc, histVars>>

\* 1104-1108: lastStarted = time.Now() under workerStartMu, workers + 1 and
\* go startHTTPLogger.
InitSpawn ==
  /\ iSpawn > 0 /\ workerStartMu = {}
  /\ iSpawn' = iSpawn - 1
  /\ sinceStarted' = "within"
  /\ workers' = workers + 1
  /\ workersPeak' = Peak(workers + 1)
  /\ wStart' = wStart + 1
  /\ iSpawned' = iSpawned + 1
  /\ UNCHANGED <<cfgVars, enqOrder, postLog, rplVars, srvVars, iRet, revives, sleeps,
                 status, chVars, muVars, cntVars, storeVars, sndVars,
                 wIdle, wBusy, wg, iCas, initsLeft, reviveOnce, revivePc,
                 failuresLeft, cPc, histVars>>

TargetInit == InitLogChannel \/ InitCAS \/ InitSpawn

\* ------------------------------------------- the revive goroutine (1079)
\* 1082-1097: at a tick leave unless status is Offline, else probe again.
ReviveTick ==
  /\ revivePc = "tick"
  /\ IF status # statusOffline
       THEN revivePc' = "done"
       ELSE \E o \in Outcomes :
              revivePc' = IF IsOnline(o) THEN "cas" ELSE "tick"
  /\ UNCHANGED <<cfgVars, ordVars, rplVars, srvVars, obsVars,
                 status, workers, sinceStarted, chVars, muVars, cntVars,
                 storeVars, sndVars, wrkVars, iCas, iSpawn, initsLeft, reviveOnce,
                 failuresLeft, cPc, histVars>>

\* ReviveCAS that starts a worker whatever the CAS returned.
ReviveCASNoCheck ==
  /\ revivePc = "cas"
  /\ status' = IF status = statusOffline THEN statusOnline ELSE status
  /\ revivePc' = "spawn"
  /\ UNCHANGED <<cfgVars, ordVars, rplVars, srvVars, obsVars,
                 workers, sinceStarted, chVars, muVars, cntVars,
                 storeVars, sndVars, wrkVars, iCas, iSpawn, initsLeft, reviveOnce,
                 failuresLeft, cPc, histVars>>

\* 1088
ReviveCAS ==
  /\ revivePc = "cas"
  /\ IF status = statusOffline
       THEN status' = statusOnline /\ revivePc' = "spawn"
       ELSE UNCHANGED status /\ revivePc' = "done"
  /\ UNCHANGED <<cfgVars, ordVars, rplVars, srvVars, obsVars,
                 workers, sinceStarted, chVars, muVars, cntVars,
                 storeVars, sndVars, wrkVars, iCas, iSpawn, initsLeft, reviveOnce,
                 failuresLeft, cPc, histVars>>

\* 1089-1095
ReviveSpawn ==
  /\ revivePc = "spawn" /\ workerStartMu = {}
  /\ sinceStarted' = "within"
  /\ workers' = workers + 1
  /\ workersPeak' = Peak(workers + 1)
  /\ wStart' = wStart + 1
  /\ revivePc' = "done"
  /\ iSpawned' = iSpawned + 1
  /\ UNCHANGED <<cfgVars, enqOrder, postLog, rplVars, srvVars, iRet, revives, sleeps,
                 status, chVars, muVars, cntVars, storeVars, sndVars,
                 wIdle, wBusy, wg, iCas, iSpawn, initsLeft, reviveOnce, failuresLeft,
                 cPc, histVars>>

Revive == ReviveTick \/ ReviveCAS \/ ReviveSpawn

\* ------------------------------------------------------------- the clock
\* Time passes: more than a second has gone by since lastStarted.
Tick ==
  /\ sinceStarted = "within"
  /\ sinceStarted' = "over"
  /\ UNCHANGED <<cfgVars, ordVars, rplVars, srvVars, obsVars,
                 status, workers, chVars, muVars, cntVars, storeVars,
                 sndVars, wrkVars, initVars, failuresLeft, cPc, histVars>>

\* ------------------------------------------------------ Server.Init (79)
\* 87-92: newHTTPListener reports, per address, whether it could be bound.
ServerInitListen ==
  /\ srvInitPc = 0
  /\ listenErrs' \in [Addrs -> IF bindable = "all" THEN {"nil"}
                                ELSE {"nil", "err"}]
  /\ srvInitPc' = 1
  /\ UNCHANGED <<tgtVars, durVars, bindable, errCallbacks, interfaceFound, initRet,
                 listener, handlerWrapped, inShutdown, requestCount, rqVars,
                 sdVars>>

\* 95-101: one turn of the loop over listenErrs.
ServerInitCallback ==
  /\ srvInitPc \in Addrs
  /\ IF listenErrs[srvInitPc] = "err"
       THEN /\ errCallbacks' = [errCallbacks EXCEPT ![srvInitPc] = @ + 1]
            /\ UNCHANGED interfaceFound
       ELSE /\ interfaceFound' = TRUE
            /\ UNCHANGED errCallbacks
  /\ srvInitPc' = srvInitPc + 1
  /\ UNCHANGED <<tgtVars, durVars, bindable, listenErrs, initRet, listener,
                 handlerWrapped, inShutdown, requestCount, rqVars, sdVars>>

\* ServerInitInstall that installs before it looks at interfaceFound.
ServerInitInstallAlways ==
  /\ srvInitPc = NumAddrs + 1
  /\ srvInitPc' = NumAddrs + 2
  /\ handlerWrapped' = TRUE
  /\ listener' = "open"
  /\ initRet' = IF interfaceFound THEN "serve"
                ELSE "no available interface found"
  /\ UNCHANGED <<tgtVars, durVars, bindable, listenErrs, errCallbacks, interfaceFound,
                 inShutdown, requestCount, rqVars, sdVars>>

\* 102-140: without a bound address return the error, else install the wrapped
\* handler and the listener under listenerMutex and return serve.
ServerInitInstall ==
  /\ srvInitPc = NumAddrs + 1
  /\ srvInitPc' = NumAddrs + 2
  /\ IF interfaceFound
       THEN /\ handlerWrapped' = TRUE
            /\ listener' = "open"
            /\ initRet' = "serve"
       ELSE /\ initRet' = "no available interface found"
            /\ UNCHANGED <<handlerWrapped, listener>>
  /\ UNCHANGED <<tgtVars, durVars, bindable, listenErrs, errCallbacks, interfaceFound,
                 inShutdown, requestCount, rqVars, sdVars>>

ServerInit == ServerInitListen \/ ServerInitCallback \/ ServerInitInstall

\* ------------------------------------------------ the wrapped handler (109)
\* GetRequestCount (74)
GetRequestCount == requestCount

\* The answer written at 113-115.
ShutdownResponse ==
  [code |-> StatusServiceUnavailable, connection |-> "close",
   body |-> "http: Server closed"]

\* What the user handler writes: anything of its own.
HandlerResponse == [code |-> 200, connection |-> "", body |-> "handler"]

\* A request reaches srv.Handler, on a new connection or on one kept alive.
RequestArrives(r) ==
  /\ rqPc[r] = "none" /\ handlerWrapped /\ reqsLeft > 0
  /\ rqPc' = [rqPc EXCEPT ![r] = "check"]
  /\ reqsLeft' = reqsLeft - 1
  /\ UNCHANGED <<tgtVars, durVars, srvInitVars, listener, handlerWrapped, inShutdown,
                 requestCount, rqResp, sdVars>>

\* RequestGate with the increment of requestCount moved before the gate.
RequestGateCounts(r) ==
  /\ rqPc[r] = "check"
  /\ IF inShutdown # 0
       THEN /\ rqResp' = [rqResp EXCEPT ![r] = ShutdownResponse]
            /\ rqPc' = [rqPc EXCEPT ![r] = "done"]
            /\ requestCount' = requestCount + 1
       ELSE /\ rqPc' = [rqPc EXCEPT ![r] = "inc"]
            /\ UNCHANGED <<rqResp, requestCount>>
  /\ UNCHANGED <<tgtVars, durVars, reqsLeft, srvInitVars, listener, handlerWrapped, inShutdown,
                 sdVars>>

\* 111-117: the load of inShutdown; in shutdown answer 503 and return.
RequestGate(r) ==
  /\ rqPc[r] = "check"
  /\ IF inShutdown # 0
       THEN /\ rqResp' = [rqResp EXCEPT ![r] = ShutdownResponse]
            /\ rqPc' = [rqPc EXCEPT ![r] = "done"]
       ELSE /\ rqPc' = [rqPc EXCEPT ![r] = "inc"]
            /\ UNCHANGED rqResp
  /\ UNCHANGED <<tgtVars, durVars, reqsLeft, srvInitVars, listener, handlerWrapped, inShutdown,
                 requestCount, sdVars>>

\* 119-123: requestCount + 1, then the user handler is called.
RequestEnter(r) ==
  /\ rqPc[r] = "inc"
  /\ requestCount' = requestCount + 1
  /\ rqPc' = [rqPc EXCEPT ![r] = "handler"]
  /\ UNCHANGED <<tgtVars, durVars, reqsLeft, srvInitVars, listener, handlerWrapped, inShutdown,
                 rqResp, sdVars>>

\* RequestReturn without the deferred decrement.
RequestReturnNoDecrement(r) ==
  /\ rqPc[r] = "handler"
  /\ rqResp' = [rqResp EXCEPT ![r] = HandlerResponse]
  /\ rqPc' = [rqPc EXCEPT ![r] = "done"]
  /\ UNCHANGED <<tgtVars, durVars, reqsLeft, srvInitVars, listener, handlerWrapped, inShutdown,
                 requestCount, sdVars>>

\* 120: the user handler returns (or panics) and the deferred decrement runs.
RequestReturn(r) ==
  /\ rqPc[r] = "handler"
  /\ requestCount' = requestCount - 1
  /\ rqResp' = [rqResp EXCEPT ![r] = HandlerResponse]
  /\ rqPc' = [rqPc EXCEPT ![r] = "done"]
  /\ UNCHANGED <<tgtVars, durVars, reqsLeft, srvInitVars, listener, handlerWrapped, inShutdown,
                 sdVars>>

Request(r) ==
  RequestArrives(r) \/ RequestGate(r) \/ RequestEnter(r) \/ RequestReturn(r)

\* --------------------------------------------------- Server.Shutdown (144)
\* The call returns ret; the deferred Stop calls put its timers away.
ShutdownReturn(c, ret) ==
  /\ sdPc' = [sdPc EXCEPT ![c] = "idle"]
  /\ sdRet' = [sdRet EXCEPT ![c] = ret]
  /\ shutdownTimer' = [shutdownTimer EXCEPT ![c] = "off"]
  /\ timer' = [timer EXCEPT ![c] = "off"]
  /\ retClosed' = IF ret = "ErrServerClosed" THEN retClosed + 1 ELSE retClosed

\* 145-150: under listenerMutex, without a listener report server closed.
ShutdownCheckListener(c) ==
  /\ sdPc[c] = "idle" /\ shutdownsLeft > 0
  /\ shutdownsLeft' = shutdownsLeft - 1
  /\ IF listener = "nil"
       THEN ShutdownReturn(c, "ErrServerClosed")
       ELSE /\ sdPc' = [sdPc EXCEPT ![c] = "add"]
            /\ sdRet' = [sdRet EXCEPT ![c] = "none"]
            /\ UNCHANGED <<shutdownTimer, timer, retClosed>>
  /\ UNCHANGED <<tgtVars, durVars, srvInitVars, listener, handlerWrapped, inShutdown,
                 requestCount, rqVars, sdObs, closes>>

\* ShutdownAdd that lets the first two callers through.
ShutdownAddOffByOne(c) ==
  /\ sdPc[c] = "add"
  /\ inShutdown' = inShutdown + 1
  /\ IF inShutdown' > 2
       THEN ShutdownReturn(c, "ErrServerClosed")
       ELSE /\ sdPc' = [sdPc EXCEPT ![c] = "close"]
            /\ UNCHANGED <<sdRet, shutdownTimer, timer, retClosed>>
  /\ UNCHANGED <<tgtVars, durVars, srvInitVars, listener, handlerWrapped, requestCount,
                 rqVars, sdObs, shutdownsLeft, closes>>

\* 152-155: AddUint32(&inShutdown, 1); any result but 1 means a shutdown is
\* already in progress.  (The uint32 wraps after 2^32 calls, out of reach of
\* MaxShutdowns.)
ShutdownAdd(c) ==
  /\ sdPc[c] = "add"
  /\ inShutdown' = inShutdown + 1
  /\ IF inShutdown' > 1
       THEN ShutdownReturn(c, "ErrServerClosed")
       ELSE /\ sdPc' = [sdPc EXCEPT ![c] = "close"]
            /\ UNCHANGED <<sdRet, shutdownTimer, timer, retClosed>>
  /\ UNCHANGED <<tgtVars, durVars, srvInitVars, listener, handlerWrapped, requestCount,
                 rqVars, sdObs, shutdownsLeft, closes>>

\* 158-163 and 177-182: close the listener; on its error return it, else start
\* the shutdown timer, for srv.ShutdownTimeout, and the poll timer.  (The
\* timers are abstract: what they are given decides how much time passes
\* before they fire, not whether they do; the poll intervals are those of
\* NextPollInterval below.)
ShutdownClose(c) ==
  /\ sdPc[c] = "close"
  /\ listener' = "closed"
  /\ closes' = closes + 1
  /\ \E err \in BOOLEAN :
       IF err
         THEN /\ ShutdownReturn(c, "close error")
              /\ UNCHANGED shutdownTimeout
         ELSE /\ sdPc' = [sdPc EXCEPT ![c] = "select"]
              /\ shutdownTimeout' = [shutdownTimeout EXCEPT ![c] = srvShutdownTimeout]
              /\ shutdownTimer' = [shutdownTimer EXCEPT ![c] = "armed"]
              /\ timer' = [timer EXCEPT ![c] = "armed"]
              /\ UNCHANGED <<sdRet, retClosed>>
  /\ UNCHANGED <<tgtVars, srvShutdownTimeout, pollIntervalBase, interval, polls,
                 srvInitVars, handlerWrapped, inShutdown, requestCount,
                 rqVars, sdObs, shutdownsLeft>>

\* ShutdownTimeout has elapsed: shutdownTimer.C becomes ready.
ShutdownTimerFires(c) ==
  /\ shutdownTimer[c] = "armed"
  /\ shutdownTimer' = [shutdownTimer EXCEPT ![c] = "fired"]
  /\ UNCHANGED <<tgtVars, durVars, srvInitVars, listener, handlerWrapped, inShutdown,
                 requestCount, rqVars, sdPc, sdRet, sdObs, timer, shutdownsLeft,
                 closes, retClosed>>

\* The poll interval has elapsed: timer.C becomes ready.
PollTimerFires(c) ==
  /\ timer[c] = "armed"
  /\ timer' = [timer EXCEPT ![c] = "fired"]
  /\ UNCHANGED <<tgtVars, durVars, srvInitVars, listener, handlerWrapped, inShutdown,
                 requestCount, rqVars, sdPc, sdRet, sdObs, shutdownTimer,
                 shutdownsLeft, closes, retClosed>>

\* ShutdownTimeout that goes on waiting while requests are in flight.
ShutdownTimeoutKeepsWaiting(c) ==
  /\ sdPc[c] = "select" /\ shutdownTimer[c] = "fired"
  /\ sdObs' = [sdObs EXCEPT ![c] = <<"timeout", requestCount>>]
  /\ IF requestCount <= 0
       THEN ShutdownReturn(c, "nil")
       ELSE /\ shutdownTimer' = [shutdownTimer EXCEPT ![c] = "armed"]
            /\ UNCHANGED <<sdPc, sdRet, timer, retClosed>>
  /\ UNCHANGED <<tgtVars, durVars, srvInitVars, listener, handlerWrapped, inShutdown,
                 requestCount, rqVars, shutdownsLeft, closes>>

\* ShutdownTimeout with requestCount < 0 as the test for success.
ShutdownTimeoutStrict(c) ==
  /\ sdPc[c] = "select" /\ shutdownTimer[c] = "fired"
  /\ sdObs' = [sdObs EXCEPT ![c] = <<"timeout", requestCount>>]
  /\ ShutdownReturn(c, IF requestCount < 0 THEN "nil" ELSE "timed out")
  /\ UNCHANGED <<tgtVars, durVars, srvInitVars, listener, handlerWrapped, inShutdown,
                 requestCount, rqVars, shutdownsLeft, closes>>

\* 186-198: the select takes the case of shutdownTimer.C.
ShutdownTimeout(c) ==
  /\ sdPc[c] = "select" /\ shutdownTimer[c] = "fired"
  /\ sdObs' = [sdObs EXCEPT ![c] = <<"timeout", requestCount>>]
  /\ ShutdownReturn(c, IF requestCount <= 0 THEN "nil" ELSE "timed out")
  /\ UNCHANGED <<tgtVars, durVars, srvInitVars, listener, handlerWrapped, inShutdown,
                 requestCount, rqVars, shutdownsLeft, closes>>

\* 199-203: the select takes the case of timer.C.
ShutdownPoll(c) ==
  /\ sdPc[c] = "select" /\ timer[c] = "fired"
  /\ sdObs' = [sdObs EXCEPT ![c] = <<"poll", requestCount>>]
  /\ IF requestCount <= 0
       THEN ShutdownReturn(c, "nil")
       ELSE /\ timer' = [timer EXCEPT ![c] = "armed"]
            /\ UNCHANGED <<sdPc, sdRet, shutdownTimer, retClosed>>
  /\ UNCHANGED <<tgtVars, durVars, srvInitVars, listener, handlerWrapped, inShutdown,
                 requestCount, rqVars, shutdownsLeft, closes>>

Shutdown(c) ==
  \/ ShutdownCheckListener(c) \/ ShutdownAdd(c) \/ ShutdownClose(c)
  \/ ShutdownTimeout(c) \/ ShutdownPoll(c)

Timers(c) == ShutdownTimerFires(c) \/ PollTimerFires(c)

\* ------------------------------------- nextPollInterval (Shutdown, 165-175)
\* rand.Intn(n): any of 0 .. n-1; the values tried are JitterSamples of them,
\* spread evenly from 0, and n-1.
RandIntn(n) == {(n * i) \div JitterSamples : i \in 0..(JitterSamples - 1)} \cup {n - 1}

\* 165: the closure is made, with its base at one millisecond.
PollIntervalStart ==
  /\ pollIntervalBase = 0
  /\ pollIntervalBase' = Millisecond
  /\ UNCHANGED <<tgtVars, srvInitVars, listener, handlerWrapped, inShutdown,
                 requestCount, rqVars, sdVars, srvShutdownTimeout, shutdownTimeout,
                 interval, polls>>

\* NextPollInterval that clamps the base before it doubles it.
NextPollIntervalClampFirst ==
  /\ pollIntervalBase # 0 /\ polls < MaxPolls
  /\ \E j \in RandIntn(pollIntervalBase \div 10) :
       interval' = pollIntervalBase + j
  /\ pollIntervalBase' = 2 * (IF pollIntervalBase > shutdownPollIntervalMax
                                THEN shutdownPollIntervalMax ELSE pollIntervalBase)
  /\ polls' = polls + 1
  /\ UNCHANGED <<tgtVars, srvInitVars, listener, handlerWrapped, inShutdown,
                 requestCount, rqVars, sdVars, srvShutdownTimeout, shutdownTimeout>>

\* 166-175: one call of nextPollInterval: the base plus up to 10% of jitter is
\* returned, and the base is doubled and clamped for the next call.
NextPollInterval ==
  /\ pollIntervalBase # 0 /\ polls < MaxPolls
  /\ \E j \in RandIntn(pollIntervalBase \div 10) :
       interval' = pollIntervalBase + j
  /\ pollIntervalBase' = IF 2 * pollIntervalBase > shutdownPollIntervalMax
                           THEN shutdownPollIntervalMax ELSE 2 * pollIntervalBase
  /\ polls' = polls + 1
  /\ UNCHANGED <<tgtVars, srvInitVars, listener, handlerWrapped, inShutdown,
                 requestCount, rqVars, sdVars, srvShutdownTimeout, shutdownTimeout>>

\* ---------------------------------------------------------- specifications
\* Channel mode (a Target without queue directory), with a remote that may
\* answer, reject or be down at each POST.
Init == InitWith(FALSE, {"any"}, MaxSends, MaxInits, MaxFailures)

Next ==
  \/ \E s \in Senders : Send(s)
  \/ Worker
  \/ TargetInit
  \/ Revive
  \/ Cancel
  \/ Tick

Spec == Init /\ [][Next]_vars

\* Channel mode with a remote that accepts every POST (no probe fails, so the
\* revive goroutine is never started).
InitOnline == InitWith(FALSE, {"ok"}, MaxSends, MaxInits, 0)

NextOnline ==
  \/ \E s \in Senders : Send(s)
  \/ Worker
  \/ TargetInit
  \/ Cancel
  \/ Tick

SpecOnline == InitOnline /\ [][NextOnline]_vars

\* The same under fair scheduling: every goroutine that can take a step
\* eventually takes one, and every HTTP round trip returns.
SpecFair ==
  /\ InitOnline /\ [][NextOnline]_vars
  /\ \A s \in Senders : WF_vars(SendLoadStatus(s) \/ SendSelect(s) \/ SendIsOnline(s)
                                  \/ SendStartWorker(s) \/ SendBlockingEnqueue(s))
  /\ WF_vars(Worker)
  /\ WF_vars(InitCAS \/ InitSpawn)
  /\ WF_vars(CancelLock \/ CancelClose \/ CancelWait)

\* Durable mode: a Target with a queue directory.
InitStore == InitWith(TRUE, {"any"}, MaxSends, MaxInits, MaxFailures)

NextStore ==
  \/ \E s \in Senders : Send(s)
  \/ Worker
  \/ InitQueueStore
  \/ SendFromStore
  \/ Cancel
  \/ Tick

SpecStore == InitStore /\ [][NextStore]_vars

\* Channel mode with a remote that accepts every POST but answers slowly (the
\* endpoint that sleeps per request): over the run no delivery returns, so a
\* worker that has received an entry stays inside logEntry.
InitWorkers == InitWith(FALSE, {"ok"}, MaxSendsW, MaxInits, 0)

NextWorkers ==
  \/ \E s \in Senders : Send(s)
  \/ WorkerStart
  \/ WorkerReceive
  \/ TargetInit
  \/ Tick

SpecWorkers == InitWorkers /\ [][NextWorkers]_vars

\* Channel mode with a remote that refuses every connection: every probe
\* reports the network down.  The steps left out (the new-worker path of Send,
\* the CAS and spawn of Init and revive, the workers, the clock) are the ones
\* whose guards need an online probe; C11 states that they stay disabled.
\* Cancel is not called.
SendsOffline == QueueSize + 2

InitOffline == InitWith(FALSE, {"down"}, SendsOffline, MaxInits, 0)

NextOffline ==
  \/ \E s \in Senders : SendStart(s) \/ SendLoadStatus(s) \/ SendSelect(s)
                        \/ SendIsOnline(s)
  \/ InitLogChannel
  \/ ReviveTick

SpecOffline == InitOffline /\ [][NextOffline]_vars

\* Channel mode against each of the three fixed remotes: the one that accepts
\* every POST, the one that answers every POST with an HTTP error, the one that
\* refuses every connection.  The fixture tells what every probe of the run got.
InitProbe == InitWith(FALSE, {"ok", "reject", "down"}, MaxSends, MaxInits, MaxFailures)

\* Against a fixed remote the revive goroutine, started only after a probe
\* that found the remote down, goes on ticking and never gets to its CAS.
NextProbe ==
  \/ \E s \in Senders : Send(s)
  \/ Worker
  \/ TargetInit
  \/ ReviveTick
  \/ Cancel
  \/ Tick

SpecProbe == InitProbe /\ [][NextProbe]_vars

\* Both modes: a Target made with or without a queue directory, with every
\* operation of either mode.
InitModes ==
  \/ InitWith(TRUE, {"any"}, MaxSends, MaxInits, MaxFailures)
  \/ InitWith(FALSE, {"any"}, MaxSends, MaxInits, MaxFailures)

NextModes ==
  \/ \E s \in Senders : Send(s)
  \/ Worker
  \/ TargetInit
  \/ InitQueueStore
  \/ SendFromStore
  \/ Revive
  \/ Cancel
  \/ Tick

SpecModes == InitModes /\ [][NextModes]_vars

\* Channel mode without producers, under fair scheduling of the revive
\* goroutine: its ticker fires every second and the goroutine runs when it can.
InitRevive == InitWith(FALSE, {"any"}, 0, MaxInits, 0)

NextRevive ==
  \/ WorkerStart
  \/ WorkerExit
  \/ TargetInit
  \/ Revive
  \/ Cancel
  \/ Tick

SpecRevive ==
  /\ InitRevive /\ [][NextRevive]_vars
  /\ WF_vars(ReviveTick) /\ WF_vars(ReviveCAS \/ ReviveSpawn)

\* Channel mode with as many Send calls as the channel holds, so that no Send
\* finds it full (the steps of Send past its select stay disabled, as C25
\* states), and a remote that may fail as many deliveries as logEntry tries.
InitRetry == InitWith(FALSE, {"any"}, QueueSize, MaxInits, MaxTries)

NextRetry ==
  \/ \E s \in Senders : SendStart(s) \/ SendLoadStatus(s) \/ SendSelect(s)
  \/ Worker
  \/ TargetInit
  \/ Revive
  \/ Cancel
  \/ Tick

SpecRetry == InitRetry /\ [][NextRetry]_vars

\* Channel mode, never cancelled, against the slow remote of SpecWorkers or
\* against one that refuses every connection: the two ways to a full buffer.
\* One producer makes the Send calls, one after the other.
InitBufferFull == InitWith(FALSE, {"ok", "down"}, MaxSendsW, MaxInits, 0)

NextBufferFull ==
  \/ Send(1)
  \/ WorkerStart
  \/ WorkerReceive
  \/ TargetInit
  \/ Tick

SpecBufferFull == InitBufferFull /\ [][NextBufferFull]_vars

\* The Server with every address bindable: one Init, requests through the
\* wrapped handler, Shutdown calls and their timers.  The Target takes no step.
TargetIdle ==
  NewTarget(FALSE, {"ok"}, 0, 0, 0) /\ queueSize = QueueSize /\ recording = FALSE

InitSrv == TargetIdle /\ NewServer("all", NumReqs, MaxShutdowns)

NextSrv ==
  \/ ServerInit
  \/ \E r \in Reqs : Request(r)
  \/ \E c \in Closers : Shutdown(c) \/ Timers(c)

SpecSrv == InitSrv /\ [][NextSrv]_vars

\* The same under fair scheduling of each Shutdown call and of its shutdown
\* timer: the call goes on while it can, the timer fires, and a select whose
\* shutdownTimer case stays ready ends up taking it.  Nothing is assumed of
\* the poll timer, and a user handler may never return.
InitSrvFair == TargetIdle /\ NewServer("all", FairReqs, FairShutdowns)

SpecSrvFair ==
  /\ InitSrvFair /\ [][NextSrv]_vars
  /\ \A c \in Closers :
       WF_vars(ShutdownAdd(c) \/ ShutdownClose(c) \/ ShutdownTimerFires(c)
                 \/ ShutdownTimeout(c))

\* Channel mode with a channel of more than one entry, and the order of the
\* enqueues and of the POSTs observed: entries are enqueued while Offline and
\* drained after the revive goroutine promotes, some deliveries are retried,
\* and a full channel makes Send start a second worker.
SendsFifo == QueueSize + 2

InitFifo ==
  /\ NewTarget(FALSE, {"any"}, SendsFifo, MaxInits, MaxFailures)
  /\ queueSize = QueueSize + 1 /\ recording = TRUE
  /\ NewServer("all", 0, 0)

\* Two producers, the workers, Init and the revive goroutine; no Cancel.
NextFifo ==
  \/ Send(1) \/ Send(2)
  \/ WorkerStart \/ WorkerReceive
  \/ (\E p \in wBusy : WorkerLogEntry(p[1], p[2]))
  \/ TargetInit
  \/ Revive
  \/ Tick

SpecFifo == InitFifo /\ [][NextFifo]_vars

\* The poll intervals of one Shutdown call that goes on polling: the closure
\* nextPollInterval on its own, called for the first timer and at each Reset.
InitPoll == TargetIdle /\ NewServer("all", 0, 0)

NextPoll == PollIntervalStart \/ NextPollInterval

SpecPoll == InitPoll /\ [][NextPoll]_vars

\* Server.Init over addresses of which any subset may fail to bind, with the
\* Shutdown calls that follow or race with it; no request is sent.
InitSrvAddrs == TargetIdle /\ NewServer("any", 0, MaxShutdowns)

NextSrvAddrs ==
  \/ ServerInit
  \/ \E c \in Closers : Shutdown(c) \/ Timers(c)

SpecSrvAddrs == InitSrvAddrs /\ [][NextSrvAddrs]_vars

\* ------------------------------------------------------------------ claims
Delivered == LET Sum[n \in 0..(MaxSends + MaxSendsW)] ==
                   IF n = 0 THEN 0 ELSE posted[n] + Sum[n - 1]
             IN  Sum[MaxSends + MaxSendsW]

\* C1: no Send ever sends on the closed channel: no send on it panics, and a
\* sender past the select (at the probe, at the worker start, at the blocking
\* enqueue) holds the read lock on logChMu while logCh is open and non-nil.
C1_NoSendOnClosedChannel ==
  /\ ~panicked
  /\ \A s \in Senders :
       sPc[s] \in {"probe", "startmu", "enqueue"} =>
         s \in readers /\ ~logChClosed /\ ~logChNil

\* Cancel has announced its write lock while a sender is inside the blocking
\* enqueue with the read lock held.
C1_Witness == writerPending /\ \E s \in readers : sPc[s] = "enqueue"

\* C2: once called, Cancel eventually returns.
C2_CancelTerminates == (cPc # "idle") ~> (cPc = "done")

\* C3: no Send is ever suspended: none waits at the blocking enqueue for space
\* in the full channel, none waits for workerStartMu held by another Send.
C3_SendNeverBlocks ==
  \A s \in Senders :
    /\ ~(sPc[s] = "enqueue" /\ Len(logCh) >= QueueSize /\ ~logChClosed)
    /\ ~(sPc[s] = "startmu" /\ workerStartMu # {})

\* C4: 0 <= workers <= maxWorkers in every reachable state.
C4_WorkersBounded == workers >= 0 /\ workers <= maxWorkers

\* C5: a Send that begins after Cancel has returned returns nil and changes
\* nothing: not the channel, not the store, not the counters.
C5_SendAfterCancelNoOp ==
  [][\A s \in Senders :
       ((sPc[s] = "idle" /\ cPc = "done" /\ nextEntry' # nextEntry)
          \/ (sAfterCancel[s] /\ sPc'[s] # sPc[s]))
       => /\ logCh' = logCh /\ storeItems' = storeItems
          /\ totalMessages' = totalMessages /\ failedMessages' = failedMessages
          /\ retErr' = retErr /\ posted' = posted]_vars

\* C6: status starts Offline and only moves forward: Online is entered from
\* Offline only, Closed is never left, Online never falls back to Offline.
C6_StatusForward ==
  /\ status = statusOffline
  /\ [][/\ status = statusClosed => status' = statusClosed
        /\ (status' = statusOnline /\ status # statusOnline) => status = statusOffline
        /\ status = statusOnline => status' # statusOffline]_vars

\* Cancel has stored Closed while an Init, past its probe, is about to CAS.
C6_Witness == status = statusClosed /\ iCas > 0

\* C7: once status is Closed, no step increments workers or spawns a worker.
C7_NoWorkerAfterClosed ==
  [][status = statusClosed => workers' <= workers /\ wStart' <= wStart]_vars

\* C8: when Cancel has returned, every entry that was put on the channel has
\* been given at least one delivery attempt.
C8_CancelFlushes == cPc = "done" => \A e \in enqueued : attempts[e] >= 1

\* C9: with a queue directory no Send ever puts its entry on the channel, and
\* without one no Send ever puts it in a store.
C9_RoutingFixed ==
  /\ queueDir => enqueued = {}
  /\ ~queueDir => persisted = {}

SendsIdle == \A s \in Senders : sPc[s] = "idle"

C11_DropWhenFullOffline ==
  /\ workers = 0 /\ wStart = 0 /\ wIdle = 0 /\ wBusy = {}
  /\ iCas = 0 /\ iSpawn = 0 /\ revivePc \in {"none", "tick"}
  /\ sinceStarted = "over"
  /\ \A s \in Senders : sPc[s] \notin {"startmu", "enqueue"}
  /\ (SendsIdle /\ nextEntry - 1 >= QueueSize) =>
       /\ Len(logCh) = QueueSize
       /\ Cardinality(retErr) = (nextEntry - 1) - QueueSize
       /\ retErr \cap enqueued = {}
       /\ failedMessages = (nextEntry - 1) - QueueSize

\* All the Send calls of the run have returned, two of them with an error.
C11_Witness ==
  /\ remote = "down" /\ SendsIdle /\ sendsLeft = 0
  /\ Len(logCh) = QueueSize /\ Cardinality(retErr) = 2

\* C12: SendFromStore removes an entry from the store only in the step in which
\* a POST of that entry succeeded, and then returns nil; a failed POST leaves
\* the store as it is, counts a failure and returns ErrNotConnected for a
\* network-down error and the error otherwise; so every entry ever Put is
\* still in the store or has been delivered.
C12_DeleteOnlyAfterSuccess ==
  [][/\ \A e \in StoreKeys \ StoreKeys' :
          posted'[e] = posted[e] + 1 /\ rOutcome' = "ok" /\ rResult' = "nil"
     /\ (rPc = "send" /\ rPc' = "idle" /\ rOutcome' # "ok") =>
          /\ storeItems' = storeItems
          /\ failedMessages' = failedMessages + 1
          /\ rResult' = IF rOutcome' = "down" THEN "ErrNotConnected" ELSE "err"
     /\ \A e \in persisted' : e \in StoreKeys' \/ posted'[e] >= 1]_vars

\* An entry left the store after a failed and then a successful POST.
C12_Witness ==
  \E e \in persisted : e \notin StoreKeys /\ attempts[e] >= 2 /\ posted[e] = 1

\* Requests inside the user handler: past the increment of the wrapper, before
\* its deferred decrement.
InHandler == {r \in Reqs : rqPc[r] = "handler"}

\* C13: requestCount (GetRequestCount) is the number of user-handler invocations
\* in progress; it is never negative, a request answered 503 leaves it alone,
\* and it is 0 once every handler has returned.
C13_RequestCountExact ==
  /\ [](/\ GetRequestCount = Cardinality(InHandler)
        /\ GetRequestCount >= 0
        /\ InHandler = {} => GetRequestCount = 0)
  /\ [][\A r \in Reqs :
          rqResp'[r].code = StatusServiceUnavailable /\ rqResp[r].code = 0
            => requestCount' = requestCount]_vars

\* One handler is running while another request was answered 503.
C13_Witness ==
  /\ requestCount = 1
  /\ \E r \in Reqs : rqResp[r].code = StatusServiceUnavailable

\* C14: once inShutdown is set no user-handler invocation begins, and when a
\* Shutdown has returned nil no user handler is executing.
C14_NoNewWorkInShutdown ==
  [][/\ inShutdown # 0 => InHandler' \subseteq InHandler
     /\ (\E c \in Closers : sdRet'[c] = "nil") => InHandler' = {}]_vars

\* C15: after a successful Init exactly one Shutdown call closes the listener
\* and drains; every other call returns http.ErrServerClosed and closes
\* nothing; inShutdown, once non-zero, stays non-zero.
C15_ShutdownOnce ==
  /\ closes = 0 /\ inShutdown = 0
  /\ [][/\ closes' <= 1
        /\ inShutdown # 0 => inShutdown' # 0
        /\ Cardinality({c \in Closers : sdPc'[c] \in {"close", "select"}}) <= 1
        /\ inShutdown' >= 1 =>
             closes' = 1 \/ \E c \in Closers : sdPc'[c] = "close"
        /\ \A c \in Closers :
             (sdPc[c] = "add" /\ sdPc'[c] = "idle")
               => /\ sdRet'[c] = "ErrServerClosed"
                  /\ listener' = listener /\ closes' = closes
        /\ (shutdownsLeft' # shutdownsLeft /\ sdPc' = sdPc)
               => /\ retClosed' = retClosed + 1
                  /\ listener' = listener /\ closes' = closes]_vars

\* Three Shutdown calls went past the listener check and one closed it.
C15_Witness == inShutdown >= 3 /\ closes = 1

\* Every Shutdown call past the already-closed checks eventually returns.
ShutdownReturns ==
  \A c \in Closers : (sdPc[c] \in {"close", "select"}) ~> (sdPc[c] = "idle")

\* The select of caller c takes one of its cases in this step (184-204).
SelectStep(c) ==
  /\ sdPc[c] = "select"
  /\ sdPc'[c] = "idle" \/ (timer[c] = "fired" /\ timer'[c] = "armed")

\* C16 as stated: every such call eventually returns, and it returns at the
\* first select step taken after ShutdownTimeout has elapsed.
C16_ReturnsAtFirstSelect ==
  /\ ShutdownReturns
  /\ [][\A c \in Closers :
          (SelectStep(c) /\ shutdownTimer[c] = "fired") => sdPc'[c] = "idle"]_vars

\* C16 amended: every such call eventually returns, even with a handler that
\* never does; it returns at the first select step taken after ShutdownTimeout
\* has elapsed at which the poll timer is not ready as well (or no request is
\* in flight).
C16_ShutdownTerminates ==
  /\ ShutdownReturns
  /\ [][\A c \in Closers :
          (SelectStep(c) /\ shutdownTimer[c] = "fired"
             /\ (timer[c] # "fired" \/ requestCount <= 0))
            => sdPc'[c] = "idle"]_vars

\* A Shutdown call gave up on a handler that is still running.
C16_Witness ==
  \E c \in Closers : sdRet[c] = "timed out" /\ sdPc[c] = "idle" /\ requestCount > 0

\* C17: the draining call returns nil exactly after loading requestCount <= 0,
\* at a poll or at the timeout check, and the timeout error exactly after
\* loading requestCount > 0 at the timeout check; a poll that loads
\* requestCount > 0 does not return.
C17_DrainOutcome ==
  /\ [](\A c \in Closers :
         /\ sdRet[c] = "nil" =>
              sdObs[c][1] \in {"poll", "timeout"} /\ sdObs[c][2] <= 0
         /\ sdRet[c] = "timed out" =>
              sdObs[c][1] = "timeout" /\ sdObs[c][2] > 0)
  /\ [][\A c \in Closers :
          /\ (sdPc[c] = "select" /\ sdPc'[c] = "idle") =>
               /\ requestCount <= 0 => sdRet'[c] = "nil"
               /\ requestCount > 0 =>
                    sdRet'[c] = "timed out" /\ shutdownTimer[c] = "fired"
          /\ (sdPc[c] = "select" /\ sdPc'[c] = "select"
                /\ timer[c] = "fired" /\ timer'[c] = "armed") =>
               requestCount > 0]_vars

\* A request finished in time and Shutdown returned nil at the timeout check.
C17_Witness ==
  \E c \in Closers :
    /\ sdRet[c] = "nil" /\ sdObs[c] = <<"timeout", 0>>
    /\ \E r \in Reqs : rqResp[r].body = "handler"

\* C18: a request whose check finds inShutdown # 0 is answered 503 with
\* Connection: close and the server-closed message; its user handler is not
\* invoked and requestCount is unchanged.
C18_ShutdownGateResponse ==
  [][\A r \in Reqs :
       (rqPc[r] = "check" /\ rqPc'[r] # "check" /\ inShutdown # 0) =>
         /\ rqResp'[r] = [code |-> 503, connection |-> "close",
                          body |-> "http: Server closed"]
         /\ rqPc'[r] = "done"
         /\ requestCount' = requestCount]_vars

\* A request was turned away while the Shutdown call was polling.
C18_Witness ==
  /\ \E r \in Reqs : rqPc[r] = "done" /\ rqResp[r].code = 503
  /\ \E c \in Closers : sdPc[c] = "select"

\* C19: the error callback runs once for each address that failed to bind and
\* never for a bound one; with a bound address Init returns serve and installs
\* listener and wrapped handler; with none it returns "no available interface
\* found", installs nothing, and every later Shutdown reports server closed.
C19_InitAddresses ==
  /\ \A a \in Addrs : errCallbacks[a] <= 1
  /\ \A a \in Addrs : errCallbacks[a] = 1 => listenErrs[a] = "err"
  /\ initRet # "none" =>
       /\ \A a \in Addrs : errCallbacks[a] = 1 <=> listenErrs[a] = "err"
       /\ IF \E a \in Addrs : listenErrs[a] = "nil"
            THEN initRet = "serve" /\ listener # "nil" /\ handlerWrapped
            ELSE /\ initRet = "no available interface found"
                 /\ listener = "nil" /\ ~handlerWrapped
                 /\ closes = 0 /\ inShutdown = 0
                 /\ \A c \in Closers : sdRet[c] \in {"none", "ErrServerClosed"}

\* Init returned serve after one address failed to bind.
C19_Witness ==
  /\ initRet = "serve"
  /\ \E a \in Addrs : errCallbacks[a] = 1

\* C20: workers is incremented at most once per second: no step increments it
\* within a second of lastStarted, the time of the previous spawn.
C20_SpawnRateLimited ==
  [][workers' > workers => sinceStarted = "over"]_vars

\* C21 as stated: an Init call on an Offline target goes on to promote it
\* exactly when its probe POST was answered with a success status; the promotion
\* is followed by the start of exactly one worker and the recording of
\* lastStarted; after a failed probe (HTTP error or network down) the call
\* neither changes status nor starts a worker.
C21_PromotesIffProbeSucceeds ==
  [][/\ (initsLeft' < initsLeft /\ status = statusOffline) =>
          (iCas' = iCas + 1 <=> remote = "ok")
     /\ (iCas' < iCas /\ status = statusOffline) =>
          status' = statusOnline /\ iSpawn' = iSpawn + 1
     /\ iSpawn' < iSpawn =>
          /\ iSpawn' = iSpawn - 1 /\ workers' = workers + 1
          /\ wStart' = wStart + 1 /\ sinceStarted' = "within"
     /\ remote # "ok" => iCas' = iCas /\ iSpawn' = iSpawn]_vars

\* C21 amended: the same with "the probe did not end in a network or host-down
\* error" in place of "the probe succeeded": an HTTP error response promotes
\* the target as a success does; only a network or host-down error leaves the
\* status Offline and starts no worker.
C21_PromotesIffReachable ==
  [][/\ (initsLeft' < initsLeft /\ status = statusOffline) =>
          (iCas' = iCas + 1 <=> remote # "down")
     /\ (iCas' < iCas /\ status = statusOffline) =>
          status' = statusOnline /\ iSpawn' = iSpawn + 1
     /\ iSpawn' < iSpawn =>
          /\ iSpawn' = iSpawn - 1 /\ workers' = workers + 1
          /\ wStart' = wStart + 1 /\ sinceStarted' = "within"
     /\ remote = "down" => iCas' = iCas /\ iSpawn' = iSpawn]_vars

\* Init promoted the target and started its worker after a probe that was
\* answered with an HTTP error; no Send was made.
C21_Witness ==
  /\ remote = "reject" /\ status = statusOnline /\ workers = 1
  /\ sinceStarted = "within" /\ sendsLeft = MaxSends

\* Successful CAS Offline -> Online so far: each one is followed by one start of
\* a worker, pending in Init, pending in the revive goroutine, or done.
Promotions == iSpawn + (IF revivePc = "spawn" THEN 1 ELSE 0) + iSpawned

\* C22: over all Init calls and revive ticks of a Target the promotion
\* Offline -> Online succeeds at most once and Init and revive together start
\* at most one worker; an Init call that finds the target Online returns nil
\* and changes neither status, workers nor lastStarted.
C22_InitIdempotent ==
  /\ [](Promotions <= 1 /\ iSpawned <= 1)
  /\ [][/\ (status # statusOnline /\ status' = statusOnline) =>
             Promotions = 0 /\ Promotions' = 1
        /\ (initsLeft' < initsLeft /\ status = statusOnline) =>
             /\ iRet' = "nil"
             /\ status' = status /\ workers' = workers
             /\ sinceStarted' = sinceStarted
             /\ iCas' = iCas /\ iSpawn' = iSpawn /\ wStart' = wStart
             /\ reviveOnce' = reviveOnce /\ revivePc' = revivePc]_vars

\* Every Init call of the run was made, one failed its probe and started the
\* revive goroutine, the target was promoted and one worker started, and the
\* revive goroutine has left.
C22_Witness ==
  /\ initsLeft = 0 /\ iCas = 0 /\ revivePc = "done"
  /\ status = statusOnline /\ iSpawned = 1 /\ iRet = "nil"

\* The replay loop started by initQueueStore is running: the store is open and
\* its context is not cancelled.
ReplayAlive == store /\ ~storeCtxDone

\* C23: in either mode an Init call made after Cancel has returned reports the
\* "target closed" error, starts no worker, no revive goroutine and no replay
\* loop, and leaves status Closed.
C23_InitAfterCancel ==
  [][(initsLeft' < initsLeft /\ cPc = "done") =>
       /\ iRet' = "target is closed"
       /\ status' = statusClosed
       /\ iCas' = iCas /\ iSpawn' = iSpawn
       /\ workers' = workers /\ wStart' = wStart
       /\ reviveOnce' = reviveOnce /\ revivePc' = revivePc
       /\ store' = store /\ ~ReplayAlive']_vars

\* C24: at most one revive goroutine is ever started, and only by an Init whose
\* probe failed; at a tick it leaves if status is not Offline, else it probes
\* and goes to the CAS when the probe finds the remote; it starts one worker
\* exactly when the CAS succeeded, and then leaves; once gone it stays gone.
\* So after Cancel, or after a promotion by Init, it ends at its next tick
\* without starting a worker.
C24_ReviveOneShot ==
  /\ [](revives <= 1 /\ (revivePc = "none" <=> revives = 0))
  /\ [][/\ revives' > revives =>
             initsLeft' < initsLeft /\ status = statusOffline /\ ~reviveOnce
        /\ (revivePc = "tick" /\ revivePc' # "tick") =>
             /\ revivePc' = IF status # statusOffline THEN "done" ELSE "cas"
             /\ status' = status /\ workers' = workers /\ wStart' = wStart
        /\ (revivePc = "cas" /\ revivePc' # "cas") =>
             IF status = statusOffline
               THEN status' = statusOnline /\ revivePc' = "spawn"
               ELSE /\ revivePc' = "done" /\ status' = status
                    /\ workers' = workers /\ wStart' = wStart
        /\ (revivePc = "spawn" /\ revivePc' # "spawn") =>
             revivePc' = "done" /\ workers' = workers + 1 /\ wStart' = wStart + 1
        /\ revivePc = "done" => revivePc' = "done"]_vars
  /\ (revivePc = "tick" /\ status # statusOffline) ~> (revivePc = "done")

\* A second Init failed its probe after the revive goroutine had been started,
\* Cancel has returned, and the goroutine left at its tick without a worker.
C24_Witness ==
  /\ initsLeft = 0 /\ revives = 1 /\ revivePc = "done"
  /\ cPc = "done" /\ iSpawned = 0 /\ workers = 0

\* POSTs made so far, over all entries.
Attempted == LET Sum[n \in 0..(MaxSends + MaxSendsW)] ==
                   IF n = 0 THEN 0 ELSE attempts[n] + Sum[n - 1]
             IN  Sum[MaxSends + MaxSendsW]

\* Entries a worker has taken from the channel and is done with.
Finished ==
  {e \in enqueued : /\ \A i \in 1..Len(logCh) : logCh[i] # e
                    /\ \A p \in wBusy : p[1] # e}

Total(sq) == LET Sum[n \in 0..Len(sq)] == IF n = 0 THEN 0 ELSE sq[n] + Sum[n - 1]
             IN  Sum[Len(sq)]

\* C27 as stated: the sleep before attempt number n (n = 2, 3, ...) is
\* min((n + 2)^2, 1000) ms: 16 ms before the second attempt, 25 ms before the
\* third; an entry delivered at its third attempt was POSTed 3 times and slept
\* 41 ms in all; no sleep exceeds 1000 ms.
C27_BackoffFromSixteen ==
  \A e \in EntryIds :
    /\ \A i \in 1..Len(sleeps[e]) :
         /\ sleeps[e][i] = IF (i + 3) * (i + 3) > 1000 THEN 1000
                            ELSE (i + 3) * (i + 3)
         /\ sleeps[e][i] <= 1000
    /\ (posted[e] = 1 /\ Len(sleeps[e]) = 2) =>
         /\ attempts[e] = 3
         /\ sleeps[e] = <<16, 25>> /\ Total(sleeps[e]) = 41

\* C27 amended: the sleep before attempt number n is min((n + 1)^2, 1000) ms,
\* the square of two more than the attempts already made: 9 ms before the
\* second attempt, 16 ms before the third; an entry delivered at its third
\* attempt was POSTed 3 times and slept 25 ms in all; no sleep exceeds 1000 ms.
C27_BackoffFromNine ==
  \A e \in EntryIds :
    /\ \A i \in 1..Len(sleeps[e]) :
         /\ sleeps[e][i] = IF (i + 2) * (i + 2) > 1000 THEN 1000
                            ELSE (i + 2) * (i + 2)
         /\ sleeps[e][i] <= 1000
    /\ (posted[e] = 1 /\ Len(sleeps[e]) = 2) =>
         /\ attempts[e] = 3
         /\ sleeps[e] = <<9, 16>> /\ Total(sleeps[e]) = 25

\* An entry failed twice and was delivered at its third attempt.
C27_Witness ==
  \E e \in Finished :
    attempts[e] = 3 /\ posted[e] = 1 /\ Len(sleeps[e]) = 2 /\ failedMessages = 2

C28_PollSchedule ==
  /\ [](polls = 0 => pollIntervalBase \in {0, Millisecond})
  /\ [][polls' = polls + 1 =>
          /\ interval' >= pollIntervalBase
          /\ 10 * (interval' - pollIntervalBase) < pollIntervalBase
          /\ pollIntervalBase' = IF 2 * pollIntervalBase < 500 * Millisecond
                                   THEN 2 * pollIntervalBase
                                   ELSE 500 * Millisecond]_vars
  /\ [](pollIntervalBase <= 500 * Millisecond)
  /\ [](interval < 550 * Millisecond)

\* The base has been clamped, and a call has returned the clamped base plus a
\* jitter that is not zero.
C28_Witness ==
  /\ polls >= 10
  /\ pollIntervalBase = shutdownPollIntervalMax
  /\ interval > shutdownPollIntervalMax


\* ------------------------------------------------------------------ C30
\* C30: a Server made by NewServer, on which UseShutdownTimeout is never
\* called, gives its shutdown timer DefaultShutdownTimeout (5 s): every
\* Shutdown call that made the timer made it for 5 s, and a call that reports
\* the timeout error has waited on a timer of 5 s.
C30_DefaultShutdownTimeout ==
  \A c \in Closers :
    /\ shutdownTimeout[c] # -1 => shutdownTimeout[c] = DefaultShutdownTimeout
    /\ sdRet[c] = "timed out" => shutdownTimeout[c] = DefaultShutdownTimeout

\* What the code does: the timer is made for the zero Duration, and a call
\* reports the timeout error on it while a request is in the handler.
C30_ZeroTimeoutReached ==
  \E c \in Closers :
    /\ sdRet[c] = "timed out"
    /\ shutdownTimeout[c] = 0
    /\ requestCount > 0


\* ------------------------------------------------------------------ C29
\* C29: while no more than one worker has been running, the workers' POSTs
\* follow the order of the enqueues: the POSTs of the entry enqueued first
\* come first, all of them, then those of the entry enqueued second, and so
\* on (the i-th POST is for the r-th entry enqueued, r being the number of
\* different entries POSTed so far), whether the entries were enqueued while
\* Offline and drained after the promotion by the revive goroutine or not.
C29_FifoSingleWorker ==
  workersPeak <= 1 =>
    \A i \in 1..Len(postLog) :
      LET r == Cardinality({postLog[j] : j \in 1..i})
      IN  r <= Len(enqOrder) /\ postLog[i] = enqOrder[r]

\* The revive goroutine started the only worker, which found two entries on
\* the channel, enqueued against the order of their Send calls, retried the
\* first and then made the first POST of the second.
C29_Witness ==
  /\ workersPeak = 1 /\ revivePc = "done" /\ iSpawned = 1
  /\ Len(enqOrder) >= 2 /\ enqOrder[1] > enqOrder[2]
  /\ postLog = <<enqOrder[1], enqOrder[1], enqOrder[2]>>


====
